---- MODULE Spec2Model ----
(***************************************************************************)
(* Particle swarm optimisation: the Particle / Particles state machine of  *)
(* src/src/pso.rs with the objective wrapper of src/src/fitness.rs.        *)
(*                                                                         *)
(* Numbers.  Positions and velocities are f64 in the source; here they are *)
(* integers.  The coefficients omega, phi_1, phi_2 and the uniform draws   *)
(* rand_1, rand_2 are counted in halves (2 is 1.0, 1 is 0.5), and a        *)
(* product coefficient * value is rounded down to the integer grid, as a   *)
(* float product is rounded to the representable grid.                     *)
(* A fitness value is a record: either a number or NaN; every comparison   *)
(* with NaN is false and partial_cmp gives None, as for f64.               *)
(***************************************************************************)
EXTENDS Integers, Sequences, FiniteSets, TLC

\* Bounds of the exploration: population size, dimensionality, coordinates
\* in the whole swarm (size * dim), and step calls in a run.
MaxSize == 2
MaxDim == 2
MaxCells == 2
MaxSteps == 2

\* Inputs of the driver, drawn from small sets.
Shapes ==
    {sh \in [size : 0..MaxSize, dim : 0..MaxDim] : sh.size * sh.dim <= MaxCells}
ValueDistr == {-2, 2}
VelocityDistr == {0, 1}
\* rng.gen_range(0.0, 1.0), in halves: 0.0 or 0.5 (1.0 is excluded)
Unit01 == {0, 1}
Objectives ==
    { [func |-> "sphere", minimization |-> TRUE],
      [func |-> "sum", minimization |-> FALSE],
      [func |-> "guarded_sum", minimization |-> FALSE] }

None == <<>>
Some(x) == <<x>>

OptionsSet ==
    [omega : {None, Some(2)}, phi_1 : {0, 4}, phi_2 : {0, 4}]

VARIABLES
    pc,           \* "init" | "idle" | "update" | "panicked"
    particles,    \* Particles.particles
    global_best,  \* Particles.global_best
    fitness,      \* Particles.fitness: [func, minimization]
    options,      \* step's local `options` after omega is resolved
    idx,          \* position of step's loop over the particles
    failed,       \* message of the panic that ended the run, or "none"
    steps,        \* number of step calls started
    call,         \* arguments of Particles::new: [size, dim]
    args,         \* the options the caller passed to the running step
    gb0,          \* global_best when the running step started
    p0,           \* particles when the running step started
    log,          \* per particle updated in the running step: what it read
    gb_writes,    \* writes of global_best in the running step
    held,         \* per particle: every position it has held
    nan_op        \* the running operation compared a NaN fitness

vars == <<pc, particles, global_best, fitness, options, idx, failed, steps,
          call, args, gb0, p0, log, gb_writes, held, nan_op>>

----------------------------------------------------------------------------
\* f64 fitness values

NaN == [nan |-> TRUE, val |-> 0]
Num(x) == [nan |-> FALSE, val |-> x]
IsNaN(a) == a.nan
Neg(a) == IF a.nan THEN NaN ELSE Num(0 - a.val)
Lt(a, b) == ~a.nan /\ ~b.nan /\ a.val < b.val
Geq(a, b) == ~a.nan /\ ~b.nan /\ a.val >= b.val

PartialCmp(a, b) ==
    IF a.nan \/ b.nan THEN "None"
    ELSE IF a.val < b.val THEN "Less"
    ELSE IF a.val > b.val THEN "Greater"
    ELSE "Equal"

RECURSIVE Sum(_)
Sum(v) == IF Len(v) = 0 THEN 0 ELSE Head(v) + Sum(Tail(v))

RECURSIVE SumSq(_)
SumSq(v) == IF Len(v) = 0 THEN 0 ELSE Head(v) * Head(v) + SumSq(Tail(v))

\* The caller's objective: a sum of squares, a plain sum, or a sum that is
\* undefined (NaN) where it is negative.
Func(name, v) ==
    IF name = "sphere" THEN Num(SumSq(v))
    ELSE IF name = "sum" THEN Num(Sum(v))
    ELSE IF Sum(v) < 0 THEN NaN ELSE Num(Sum(v))

CalculateForMaximization(v) ==
    IF fitness.minimization THEN Neg(Func(fitness.func, v))
    ELSE Func(fitness.func, v)

----------------------------------------------------------------------------
\* Particle

Vectors(d, S) == [1..d -> S]

ParticleNew(value, velocity) ==
    [curr_value |-> value, best_value |-> value, velocity |-> velocity]

\* coefficient (in halves) times value
Mul(c, x) == (c * x) \div 2

UpdateVelocity(p, gbest, rand_1, rand_2, opts) ==
    LET omega == opts.omega[1]
        d == DOMAIN p.velocity
        fst_term == [k \in d |-> Mul(omega, p.velocity[k])]
        snd_term == [k \in d |->
            Mul(rand_1, Mul(opts.phi_1, p.best_value[k] - p.curr_value[k]))]
        trd_term == [k \in d |->
            Mul(rand_2, Mul(opts.phi_2, gbest[k] - p.curr_value[k]))]
    IN  [p EXCEPT !.velocity =
            [k \in d |-> fst_term[k] + snd_term[k] + trd_term[k]]]

\* update_value with the velocity subtracted
UpdateValueSub(p) ==
    [p EXCEPT !.curr_value =
        [k \in DOMAIN p.curr_value |-> p.curr_value[k] - p.velocity[k]]]

UpdateValue(p) ==
    [p EXCEPT !.curr_value =
        [k \in DOMAIN p.curr_value |-> p.curr_value[k] + p.velocity[k]]]

\* update_best with the comparison turned round
UpdateBestReversed(p) ==
    LET curr_fitness == CalculateForMaximization(p.curr_value)
        best_fitness == CalculateForMaximization(p.best_value)
    IN  IF Lt(curr_fitness, best_fitness)
        THEN [p EXCEPT !.best_value = p.curr_value]
        ELSE p

UpdateBest(p) ==
    LET curr_fitness == CalculateForMaximization(p.curr_value)
        best_fitness == CalculateForMaximization(p.best_value)
    IN  IF Lt(best_fitness, curr_fitness)
        THEN [p EXCEPT !.best_value = p.curr_value]
        ELSE p

----------------------------------------------------------------------------
\* Particles

\* Iterator::max_by over the particles' current positions: the index of the
\* chosen particle, 0 when a comparison met a NaN (the closure panics), -1
\* when there is no particle (max_by gives None).  A later particle replaces
\* the running maximum unless the running maximum compares Greater.
RECURSIVE MaxByFrom(_, _, _)
MaxByFrom(ps, acc, k) ==
    IF k > Len(ps) THEN acc
    ELSE LET fa == CalculateForMaximization(ps[acc].curr_value)
             fb == CalculateForMaximization(ps[k].curr_value)
             ord == PartialCmp(fa, fb)
         IN  IF ord = "None" THEN 0
             ELSE MaxByFrom(ps, IF ord = "Greater" THEN acc ELSE k, k + 1)

MaxBy(ps) == IF Len(ps) = 0 THEN -1 ELSE MaxByFrom(ps, 1, 2)

\* the closing comparison with <= for <
NextGlobalBestTies(gbest, local_best) ==
    LET best_fitness == CalculateForMaximization(gbest)
        local_fitness == CalculateForMaximization(local_best)
    IN  IF Lt(best_fitness, local_fitness)
           \/ PartialCmp(best_fitness, local_fitness) = "Equal"
        THEN local_best ELSE gbest

\* step's closing comparison of the iteration's best with global_best
NextGlobalBest(gbest, local_best) ==
    LET best_fitness == CalculateForMaximization(gbest)
        local_fitness == CalculateForMaximization(local_best)
    IN  IF Lt(best_fitness, local_fitness) THEN local_best ELSE gbest

\* step handing the caller's options on as they came
ResolveOmegaKeep(opts, drawn) == opts

\* step's first statement: omega is the caller's, or one draw
ResolveOmega(opts, drawn) ==
    [opts EXCEPT !.omega = IF opts.omega # None THEN opts.omega ELSE Some(drawn)]

\* the loop over the particles leaving after the first of them
LoopDoneEarly(i, ps) == i > 1

\* step's loop over the particles has visited every particle
LoopDone(i, ps) == i > Len(ps)

AnyNaN(ps) ==
    \E k \in 1..Len(ps) : IsNaN(CalculateForMaximization(ps[k].curr_value))

Init ==
    /\ pc = "init"
    /\ particles = <<>>
    /\ global_best = <<>>
    /\ fitness \in Objectives
    /\ options = [omega |-> None, phi_1 |-> 0, phi_2 |-> 0]
    /\ idx = 0
    /\ failed = "none"
    /\ steps = 0
    /\ call = [size |-> 0, dim |-> 0]
    /\ args = [omega |-> None, phi_1 |-> 0, phi_2 |-> 0]
    /\ gb0 = <<>>
    /\ p0 = <<>>
    /\ log = <<>>
    /\ gb_writes = 0
    /\ held = <<>>
    /\ nan_op = FALSE

Panic(msg) ==
    /\ pc' = "panicked"
    /\ failed' = msg

\* Particles::new(size, dim, value_range, velocity_range, fitness)
New ==
    /\ pc = "init"
    /\ \E sh \in Shapes :
       \E ps \in [1..sh.size -> {ParticleNew(x, v) :
                                x \in Vectors(sh.dim, ValueDistr),
                                v \in Vectors(sh.dim, VelocityDistr)}] :
          LET m == MaxBy(ps)
          IN  /\ call' = sh
              /\ nan_op' = AnyNaN(ps)
              /\ IF m = -1
                 THEN /\ Panic("No particles were created")
                      /\ UNCHANGED <<particles, global_best, held>>
                 ELSE IF m = 0
                 THEN /\ Panic("Received a NaN")
                      /\ UNCHANGED <<particles, global_best, held>>
                 ELSE /\ particles' = ps
                      /\ global_best' = ps[m].curr_value
                      /\ held' = [k \in 1..sh.size |-> {ps[k].curr_value}]
                      /\ pc' = "idle"
                      /\ UNCHANGED failed
    /\ UNCHANGED <<fitness, options, idx, steps, args, gb0, p0, log, gb_writes>>

\* Particles::step(options): omega is resolved, the loop is about to start
StepBegin ==
    /\ pc = "idle"
    /\ steps < MaxSteps
    /\ \E opts \in OptionsSet, drawn \in Unit01 :
          /\ args' = opts
          /\ options' = ResolveOmega(opts, drawn)
    /\ idx' = 1
    /\ pc' = "update"
    /\ steps' = steps + 1
    /\ gb0' = global_best
    /\ p0' = particles
    /\ log' = <<>>
    /\ gb_writes' = 0
    /\ nan_op' = FALSE
    /\ UNCHANGED <<particles, global_best, fitness, failed, call, held>>

\* one iteration of step's loop: update_velocity, update_value, update_best
UpdateParticle ==
    /\ pc = "update"
    /\ idx <= Len(particles)
    /\ \E rand_1 \in Unit01, rand_2 \in Unit01 :
          IF options.omega = None
          THEN /\ Panic("Omega was None")
               /\ UNCHANGED <<particles, idx, log, held, nan_op>>
          ELSE LET p1 == UpdateVelocity(particles[idx], global_best,
                                        rand_1, rand_2, options)
                   p2 == UpdateValue(p1)
                   p3 == UpdateBest(p2)
               IN  /\ particles' = [particles EXCEPT ![idx] = p3]
                   /\ idx' = idx + 1
                   /\ log' = Append(log, [omega |-> options.omega,
                                          global_best |-> global_best])
                   /\ held' = [held EXCEPT ![idx] = @ \cup {p2.curr_value}]
                   /\ nan_op' = (nan_op
                        \/ IsNaN(CalculateForMaximization(p2.curr_value))
                        \/ IsNaN(CalculateForMaximization(p2.best_value)))
                   /\ UNCHANGED <<pc, failed>>
    /\ UNCHANGED <<global_best, fitness, options, steps, call, args, gb0, p0,
                   gb_writes>>

\* the rest of step after the loop: local best, comparison, global_best
SelectBest ==
    /\ pc = "update"
    /\ LoopDone(idx, particles)
    /\ LET m == MaxBy(particles)
       IN  IF m = -1
           THEN /\ Panic("Population is empty")
                /\ UNCHANGED <<global_best, gb_writes, nan_op>>
           ELSE IF m = 0
           THEN /\ Panic("Received a NaN")
                /\ nan_op' = TRUE
                /\ UNCHANGED <<global_best, gb_writes>>
           ELSE LET local_best == particles[m].curr_value
                    next == NextGlobalBest(global_best, local_best)
                IN  /\ global_best' = next
                    /\ gb_writes' = IF next = global_best
                                    THEN gb_writes ELSE gb_writes + 1
                    /\ nan_op' = (nan_op \/ AnyNaN(particles)
                         \/ IsNaN(CalculateForMaximization(global_best)))
                    /\ pc' = "idle"
                    /\ UNCHANGED failed
    /\ UNCHANGED <<particles, fitness, options, idx, steps, call, args, gb0,
                   p0, log, held>>

Next == New \/ StepBegin \/ UpdateParticle \/ SelectBest

Spec == Init /\ [][Next]_vars

----------------------------------------------------------------------------
\* Vocabulary of the properties

CFM(v) == CalculateForMaximization(v)

N == Len(particles)

\* new has returned a swarm and no step is running
Completed == pc = "idle"

\* a step has run to its end
StepCompleted == pc = "idle" /\ steps > 0

\* no position any particle has held has a NaN fitness
NoNaNSeen ==
    \A k \in 1..Len(held) : \A h \in held[k] : ~IsNaN(CFM(h))

\* the particles the running (or last) step has updated
Updated == 1..Len(log)

----------------------------------------------------------------------------
\* C1: after new and after every completed step the maximize-view fitness
\* of global_best is >= that of every particle's personal best.
C1_GlobalBestDominates ==
    Completed =>
        \A k \in 1..N : Geq(CFM(global_best), CFM(particles[k].best_value))

\* C1 where every fitness met so far is a number: the ordering holds.
C1_WhenNoNaN ==
    (Completed /\ NoNaNSeen) =>
        \A k \in 1..N : Geq(CFM(global_best), CFM(particles[k].best_value))

\* C2: the maximize-view fitness of global_best after a step is >= its
\* fitness before the step.
C2_NeverRegresses ==
    StepCompleted => Geq(CFM(global_best), CFM(gb0))

\* C2 where every fitness met so far is a number.
C2_WhenNoNaN ==
    (StepCompleted /\ NoNaNSeen) => Geq(CFM(global_best), CFM(gb0))

\* C3: a particle's personal best has the maximum maximize-view fitness of
\* all the positions it has held, and that fitness never decreases.
C3_PersonalBestIsMaxHeld ==
    Completed =>
        \A k \in 1..N :
            /\ particles[k].best_value \in held[k]
            /\ \A h \in held[k] : Geq(CFM(particles[k].best_value), CFM(h))
            /\ steps > 0 =>
                 Geq(CFM(particles[k].best_value), CFM(p0[k].best_value))

\* C3 where every fitness met so far is a number.
C3_WhenNoNaN ==
    (Completed /\ NoNaNSeen) =>
        \A k \in 1..N :
            /\ particles[k].best_value \in held[k]
            /\ \A h \in held[k] : Geq(CFM(particles[k].best_value), CFM(h))
            /\ steps > 0 =>
                 Geq(CFM(particles[k].best_value), CFM(p0[k].best_value))

\* C4: an operation (new or step) in which a NaN fitness took part in the
\* best tracking does not complete: it fails.
C4_NaNFails ==
    Completed => ~nan_op

\* C5: new yields no swarm when the population size or the dimensionality
\* is 0: the construction fails.
C5_ConstructionPrevented ==
    (pc # "init" /\ (call.size = 0 \/ call.dim = 0)) =>
        (pc = "panicked" /\ steps = 0)

\* C5, the half the code keeps: an empty population fails the construction.
C5_EmptyPopulationFails ==
    (pc # "init" /\ call.size = 0) =>
        (pc = "panicked" /\ failed = "No particles were created")

\* C6: in every step omega is resolved before any particle is updated, to
\* the caller's value or else to one draw; every particle updated in the
\* step used that value, and "Omega was None" never happens.
C6_OmegaResolved ==
    /\ failed # "Omega was None"
    /\ steps > 0 =>
        /\ options.omega # None
        /\ args.omega # None => options.omega = args.omega
        /\ args.omega = None => options.omega[1] \in Unit01
        /\ options.phi_1 = args.phi_1 /\ options.phi_2 = args.phi_2
        /\ \A k \in Updated : log[k].omega = options.omega

C6_Witness ==
    /\ StepCompleted
    /\ args.omega = None
    /\ options.omega = Some(1)
    /\ Len(log) = 2

\* C7: within a step global_best is written at most once, and only after
\* all particles were updated: every update read the global_best of the
\* step's start, and a new global_best is a position of the fully updated
\* swarm.
C7_WriteAfterAllUpdates ==
    steps > 0 =>
        /\ gb_writes <= 1
        /\ \A k \in Updated : log[k].global_best = gb0
        /\ pc = "update" => (global_best = gb0 /\ gb_writes = 0)
        /\ StepCompleted => Len(log) = N
        /\ global_best # gb0 =>
             /\ gb_writes = 1
             /\ Len(log) = N
             /\ \E k \in 1..N : global_best = particles[k].curr_value

C7_Witness ==
    /\ StepCompleted
    /\ N = 2
    /\ gb_writes = 1
    /\ global_best # gb0
    /\ particles[1].curr_value # p0[1].curr_value
    /\ particles[2].curr_value # p0[2].curr_value

\* the velocity rule, written per dimension from the state before the update
C8_Velocity(q, gbest, omega, phi_1, phi_2, r1, r2, k) ==
    Mul(omega, q.velocity[k])
    + Mul(r1, Mul(phi_1, q.best_value[k] - q.curr_value[k]))
    + Mul(r2, Mul(phi_2, gbest[k] - q.curr_value[k]))

Zero(v) == \A k \in DOMAIN v : v[k] = 0

\* C8: the new velocity is omega*velocity + phi_1*r1*(personal_best -
\* position) + phi_2*r2*(global_best - position) with one r1 and one r2 for
\* all dimensions, from the position before the update; the new position is
\* the old one plus the new velocity; with phi_1 = phi_2 = 0, omega = 1 and
\* zero velocity nothing moves and global_best stays.
C8_UpdateRule ==
    steps > 0 =>
        /\ \A i \in Updated :
             /\ \E r1 \in Unit01, r2 \in Unit01 :
                  \A k \in 1..call.dim :
                     particles[i].velocity[k] =
                        C8_Velocity(p0[i], gb0, options.omega[1],
                                    options.phi_1, options.phi_2, r1, r2, k)
             /\ \A k \in 1..call.dim :
                  particles[i].curr_value[k] =
                     p0[i].curr_value[k] + particles[i].velocity[k]
             /\ (/\ options.phi_1 = 0 /\ options.phi_2 = 0
                 /\ options.omega = Some(2) /\ Zero(p0[i].velocity)) =>
                  /\ particles[i].curr_value = p0[i].curr_value
                  /\ particles[i].velocity = p0[i].velocity
        /\ (/\ StepCompleted
            /\ options.phi_1 = 0 /\ options.phi_2 = 0
            /\ options.omega = Some(2)
            /\ \A i \in 1..N : Zero(p0[i].velocity)) =>
             global_best = gb0

C8_Witness ==
    /\ StepCompleted
    /\ call.dim = 2
    /\ options.phi_1 = 4 /\ options.phi_2 = 4
    /\ p0[1].best_value # p0[1].curr_value
    /\ particles[1].velocity # p0[1].velocity
    /\ particles[1].velocity[1] # particles[1].velocity[2]

\* some position of the swarm after the step is strictly better than the
\* global_best of the step's start
C9_Better ==
    \E k \in 1..N : Lt(CFM(gb0), CFM(particles[k].curr_value))

\* C9: a step replaces global_best if and only if the best fitness among
\* the updated positions is strictly greater than that of the global_best
\* of the step's start, and then by a position of that best fitness;
\* otherwise global_best stays the same vector.  A personal best is
\* replaced only by a strictly better new position.
C9_StrictReplacement ==
    /\ StepCompleted =>
        /\ C9_Better <=> global_best # gb0
        /\ C9_Better =>
             /\ \E k \in 1..N : global_best = particles[k].curr_value
             /\ \A k \in 1..N :
                  Geq(CFM(global_best), CFM(particles[k].curr_value))
        /\ ~C9_Better => global_best = gb0
    /\ steps > 0 =>
        \A i \in Updated :
            particles[i].best_value # p0[i].best_value =>
                /\ particles[i].best_value = particles[i].curr_value
                /\ Lt(CFM(p0[i].best_value), CFM(particles[i].curr_value))

\* a tie: the step's best position is another vector of global_best's fitness
C9_Witness ==
    /\ StepCompleted
    /\ global_best = gb0
    /\ \E k \in 1..N :
         /\ particles[k].curr_value # gb0
         /\ PartialCmp(CFM(particles[k].curr_value), CFM(gb0)) = "Equal"
    /\ \A k \in 1..N : ~Lt(CFM(gb0), CFM(particles[k].curr_value))

\* C10: where no fitness met is NaN, after new and after every completed
\* step global_best is the personal best of some particle, its fitness is
\* the maximum of the personal bests' and the best of any position held.
C10_GlobalBestIsAPersonalBest ==
    (Completed /\ NoNaNSeen) =>
        /\ \E k \in 1..N : global_best = particles[k].best_value
        /\ \A k \in 1..N :
             Geq(CFM(global_best), CFM(particles[k].best_value))
        /\ \A k \in 1..N : \A h \in held[k] : Geq(CFM(global_best), CFM(h))
        /\ \E k \in 1..N : global_best \in held[k]

C10_Witness ==
    /\ StepCompleted
    /\ NoNaNSeen
    /\ steps = 2
    /\ N = 2
    /\ global_best = gb0
    /\ \E k \in 1..N : particles[k].best_value # p0[k].best_value
    /\ \E k \in 1..N : particles[k].best_value # particles[k].curr_value

====
